---- MODULE Spec2Model ----
(***************************************************************************)
(* Model of butler's install operation (cmd/operate/install_perform.go):   *)
(* InstallPerform -> doInstallPerform -> InstallPrepare -> install task,   *)
(* run repeatedly on one staging folder (restart after failure,            *)
(* cancellation or process death).                                          *)
(*                                                                         *)
(* Pointers are modelled as naturals with Nil == 0; upload and build ids   *)
(* are positive.  An action is the code between two blocking points; a     *)
(* field assignment and the oc.Save that follows it are one step.          *)
(***************************************************************************)
EXTENDS Integers, Sequences, FiniteSets, TLC

\* ---------------------------------------------------------------- bounds
MaxBuildID  == 2
MaxSize     == 1
MaxPathLen  == 2
MaxSessions == 3
MaxFiles    == 2
MaxCalls    == 3
MaxProfileID == 3

\* ------------------------------------------------------- program constants
InstallPerformStrategyNone    == 0
InstallPerformStrategyInstall == 1
InstallPerformStrategyHeal    == 2

Nil == 0

\* buse.Code values; an error that carries no code has ErrorCode 0
CodeOperationCancelled == 499
CodeOperationAborted   == 410

\* upload ids are only compared for equality: the requested one and another
UploadIDs == {1, 2}
\* the upload the operation was queued for
RequestedUpload == 1
BuildIDs  == 1..MaxBuildID
Sizes     == 0..MaxSize
\* ids of profiles (itch.io user ids); 0 is the unset id
ProfileIDs == 1..MaxProfileID

\* installer.InstallerType values the code names, plus one native installer
InstallerTypes == {"archive", "naked", "installer", "unknown", "unsupported"}
NilInfo   == "nil"
NilResult == -1

\* ------------------------------------------------------------ data shapes
\* meta.Data (butlerd.InstallParams) as far as install_perform.go reads it
Params == [UploadID: {RequestedUpload}, UploadSize: Sizes, Build: {Nil} \cup BuildIDs,
           IgnoreInstallers: BOOLEAN, External: BOOLEAN]

\* the receipt in the install folder: absent, unreadable, or a record whose
\* Upload and Build may each be nil
NilReceipt == [state |-> "absent", Upload |-> Nil, Build |-> Nil]
Receipts ==
    {NilReceipt, [state |-> "unreadable", Upload |-> Nil, Build |-> Nil]}
    \cup [state: {"ok"}, Upload: {Nil} \cup UploadIDs, Build: {Nil} \cup BuildIDs]

\* InstallSubcontextState, zero value as in doInstallPerform
ZeroState == [DownloadSessionId |-> 0, IsAvailableLocally |-> FALSE,
              InstallerInfo |-> NilInfo, FirstInstallResult |-> NilResult,
              SecondInstallerInfo |-> NilInfo]

\* answers of client.FindUpgrade: an error, or an upgrade path
PathItems == [ID: BuildIDs, PatchSize: Sizes]
RECURSIVE SeqsUpTo(_, _)
SeqsUpTo(S, n) ==
    IF n = 0 THEN {<< >>}
    ELSE LET shorter == SeqsUpTo(S, n - 1)
         IN  shorter \cup {Append(s, x) : s \in {t \in shorter : Len(t) = n - 1}, x \in S}
UpgradePaths == SeqsUpTo(PathItems, MaxPathLen)
NotAsked == [kind |-> "notasked", path |-> << >>]
QueryFailed == [kind |-> "error", path |-> << >>]
FindUpgradeAnswers == {QueryFailed} \cup {[kind |-> "path", path |-> p] : p \in UpgradePaths}

VARIABLES
    params,           \* meta.Data of the operation stored in the staging folder
    receipt,          \* receipt file of the install folder
    live,             \* the staging folder still holds the operation (not retired)
    staged,           \* install subcontext record last flushed to the staging folder
    istate,           \* isub.Data of the running InstallPerform
    pc,               \* position of the running InstallPerform ("idle": none running)
    cancelled,        \* oc.ctx is done
    res,              \* InstallPrepareResult: ReceiptIn, Strategy
    ret,              \* what the last InstallPerform returned
    performErr,       \* what doInstallPerform returned in this run ("none" before)
    taskCalled,       \* InstallPrepare invoked the task callback in this run
    findUpgradeCalls, \* client.FindUpgrade calls of this run
    upgradeAnswer,    \* what client.FindUpgrade answered in this run
    sessionsCreated,  \* successful client.NewDownloadSession calls of the operation
    retireCalled,     \* oc.Retire was called in this run
    singleAt,         \* where the single file written by the primary backend is
    manager,          \* type of the installer.Manager selected in this run
    finalResult,      \* finalInstallResult of the task: the file count of the manifest
    lastProbed,       \* installerInfo of :279, what the first-pass probe of this run
                      \* returned; out of scope once the task runs
    secondProbes,     \* GetInstallerInfo calls on the single output file in this run
    calls,            \* manager.Install invocations of this run, in order
    commitCalls,      \* receipts committed in this run
    dlErr,            \* dlErr of :85, what the download of doForceLocal ended with;
                      \* out of scope once the caller of doForceLocal goes on
    started,          \* install TaskStarted notifications sent in this run
    offset,           \* read position of res.File / managerInstallParams.File
    nestedDone,       \* the nested backend has completed in some run of the operation
    closedUse,        \* a source handle was used after its Close in this run
    fileClosed,       \* managerInstallParams.File, the source handle in use, was closed
    events,           \* notifications and progress calls of the last step, in order
    committed,        \* what commitInstall was handed in this run
    profiles,         \* ids of the rows of the profiles table (models.Profile)
    reply,            \* what the last profile endpoint call was and answered
    me,               \* user id the GetMe of the last endpoint step returned, 0 if none
    lw                \* the LoginWithPassword request in flight or last ended

ivars == <<params, receipt, live, staged, istate, pc, cancelled, res, ret,
          performErr, taskCalled, findUpgradeCalls, upgradeAnswer,
          sessionsCreated, retireCalled, singleAt, manager, finalResult,
          lastProbed, secondProbes, calls, commitCalls, dlErr, started,
          offset, nestedDone, committed, events, fileClosed, closedUse>>
pvars == <<profiles, reply, me, lw>>
vars  == <<ivars, pvars>>

ghost  == <<taskCalled, findUpgradeCalls, upgradeAnswer, sessionsCreated, retireCalled>>

\* what the install task holds and what is observed of it in one run
task   == <<manager, finalResult, lastProbed, secondProbes, calls, commitCalls,
            dlErr, started, offset>>

\* nothing was handed to commitInstall
NoCommit == [InstallerName |-> NilInfo, InstallResult |-> NilResult]
ZeroRes == [ReceiptIn |-> NilReceipt, Strategy |-> InstallPerformStrategyNone]

\* no profile endpoint was called yet
NoReply == [op |-> "none", id |-> 0, err |-> FALSE, success |-> FALSE,
            listed |-> {}, seq |-> 0]

\* no LoginWithPassword request yet: where it stands, how often the server
\* login, the captcha and the TOTP code were asked for, what the first and
\* the last server answer said, where the API key comes from, how it ended
NoLogin == [pc |-> "idle", logins |-> 0, captchas |-> 0, totps |-> 0,
            demanded |-> FALSE, answered |-> FALSE, token |-> FALSE,
            key |-> "none", end |-> "none"]

InitInstall ==
    /\ params \in Params
    /\ receipt \in Receipts
    /\ live = TRUE
    /\ staged = ZeroState
    /\ istate = ZeroState
    /\ pc = "idle"
    /\ cancelled = FALSE
    /\ res = ZeroRes
    /\ ret = "none"
    /\ performErr = "none"
    /\ taskCalled = FALSE
    /\ findUpgradeCalls = 0
    /\ upgradeAnswer = NotAsked
    /\ sessionsCreated = 0
    /\ retireCalled = FALSE
    /\ singleAt = "none"
    /\ manager = NilInfo
    /\ finalResult = NilResult
    /\ lastProbed = NilInfo
    /\ secondProbes = 0
    /\ calls = << >>
    /\ commitCalls = 0
    /\ dlErr = "none"
    /\ started = 0
    /\ offset = 0
    /\ nestedDone = FALSE
    /\ closedUse = FALSE
    /\ fileClosed = FALSE
    /\ events = << >>
    /\ committed = NoCommit

Init ==
    /\ InitInstall
    /\ profiles = {}
    /\ reply = NoReply
    /\ me = 0
    /\ lw = NoLogin


\* ------------------------------------------------------- pure helpers
\* bfs.ReadReceipt as used at :148-152: an error is turned into nil
ReadReceiptAsIs(r) == r
ReadReceipt(r) == IF r.state = "ok" THEN r ELSE NilReceipt

\* :146 and :158, the Strategy field is left at its zero value
NewPrepareResultResumed(receiptIn) ==
    [ReceiptIn |-> receiptIn,
     Strategy |-> IF istate.DownloadSessionId # 0
                  THEN InstallPerformStrategyInstall
                  ELSE InstallPerformStrategyNone]
NewPrepareResult(receiptIn) ==
    [ReceiptIn |-> receiptIn, Strategy |-> InstallPerformStrategyNone]

\* :162
NeverNewSession(ist) == FALSE
AlwaysNewSession(ist) == TRUE
NeedsDownloadSession(ist) == ist.DownloadSessionId = 0

\* :188
AnyUpload(receiptIn, p) == receiptIn.state = "ok" /\ receiptIn.Upload # Nil
SameUpload(receiptIn, p) ==
    /\ receiptIn.state = "ok"
    /\ receiptIn.Upload # Nil
    /\ receiptIn.Upload = p.UploadID

\* :190
EitherBuild(receiptIn, p) == receiptIn.Build # Nil \/ p.Build # Nil
BothBuilds(receiptIn, p) == receiptIn.Build # Nil /\ p.Build # Nil

\* :193
IsUpgradeOrSame(newID, oldID) == newID >= oldID
IsUpgradeOrDowngrade(newID, oldID) == newID # oldID
IsUpgrade(newID, oldID) == newID > oldID

\* :236
IsDowngrade(newID, oldID) == newID < oldID

\* :208-216, the item of the installed build is skipped
RECURSIVE TotalUpgradeSize(_, _)
TotalUpgradeSize(path, oldID) ==
    IF path = << >> THEN 0
    ELSE (IF Head(path).ID = oldID THEN 0 ELSE Head(path).PatchSize)
         + TotalUpgradeSize(Tail(path), oldID)

\* :229
HealInsteadOfPatching(totalUpgradeSize, fullUploadSize) ==
    totalUpgradeSize > fullUploadSize

\* :203
QueryFailedStrategy == InstallPerformStrategyHeal
\* :231
LargerPatchInstall == InstallPerformStrategyInstall
LargerPatchStrategy == InstallPerformStrategyHeal
\* :238
DowngradeStrategy == InstallPerformStrategyHeal
\* :235 falls out of the if/else-if chain into :242-244
FallBackToInstall == InstallPerformStrategyInstall
ReinstallStrategy == InstallPerformStrategyHeal

\* :193-244, the strategy set once client.FindUpgrade has answered
UpgradeStrategyNoFallback(ans, oldID, fullUploadSize) ==
    IF ans.kind = "error" THEN InstallPerformStrategyNone
    ELSE IF TotalUpgradeSize(ans.path, oldID) > fullUploadSize
         THEN LargerPatchStrategy
         ELSE ReinstallStrategy
UpgradeStrategy(ans, oldID, fullUploadSize) ==
    IF ans.kind = "error" THEN QueryFailedStrategy
    ELSE IF HealInsteadOfPatching(TotalUpgradeSize(ans.path, oldID), fullUploadSize)
         THEN LargerPatchStrategy
         ELSE ReinstallStrategy

\* :290-300
KeepProbedType(ignore, type) == type
ApplyIgnoreInstallers(ignore, type) ==
    IF ignore /\ type \notin {"archive", "naked"} THEN "naked" ELSE type

\* :276
AlwaysProbe(ist) == TRUE
NeedsProbe(ist) == ist.InstallerInfo = NilInfo \/ ist.InstallerInfo = "unknown"

\* :317
NeverUnsupported(type) == FALSE
IsUnsupported(type) == type = "unsupported"

\* installer.GetManager / installer.IsWindowsInstaller
HasManager(type) == type \in {"archive", "naked", "installer"}
IsWindowsInstaller(type) == type = "installer"

\* :39 of InstallPerform: Retire is reached only past the error return
MayRetireAlways(err) == TRUE
MayRetireNever(err) == FALSE
MayRetire(err) == err = "ok"

\* the way out of doInstallPerform back through InstallPerform :38-45
Return(err) ==
    /\ performErr' = err
    /\ IF MayRetire(err)
       THEN pc' = "retire" /\ ret' = ret
       ELSE pc' = "idle" /\ ret' = err

\* task(res): the callback of doInstallPerform :337-340
InvokeTask(strategy) ==
    /\ taskCalled' = TRUE
    /\ pc' = IF strategy = InstallPerformStrategyHeal THEN "heal" ELSE "install"
    /\ UNCHANGED <<ret, performErr>>

\* errors a blocking, context-aware step can end with
StepErrors == IF cancelled THEN {"error", "cancelled"} ELSE {"error"}

\* ------------------------------------------------------------- actions
\* InstallPerform :25-38 and doInstallPerform :326-337 up to InstallPrepare
Start ==
    /\ pc = "idle"
    /\ live
    /\ \E stagingFolderGiven \in BOOLEAN, loadContextOk \in BOOLEAN :
         IF stagingFolderGiven /\ loadContextOk
         THEN /\ istate' = staged
              /\ pc' = "prepare"
              /\ ret' = "none"
         ELSE /\ istate' = ZeroState
              /\ pc' = "idle"
              /\ ret' = "error"
    /\ cancelled' = FALSE
    /\ res' = ZeroRes
    /\ performErr' = "none"
    /\ taskCalled' = FALSE
    /\ findUpgradeCalls' = 0
    /\ upgradeAnswer' = NotAsked
    /\ retireCalled' = FALSE
    /\ UNCHANGED <<params, receipt, live, staged, sessionsCreated, singleAt>>
    /\ manager' = NilInfo
    /\ finalResult' = NilResult
    /\ lastProbed' = NilInfo
    /\ secondProbes' = 0
    /\ calls' = << >>
    /\ commitCalls' = 0
    /\ dlErr' = "none"
    /\ started' = 0
    /\ offset' = 0
    /\ UNCHANGED nestedDone
    /\ committed' = NoCommit
    /\ events' = << >>
    /\ fileClosed' = FALSE
    /\ closedUse' = FALSE
    /\ UNCHANGED pvars

\* butlerd Cancel: the context of the running operation is cancelled
Cancel ==
    /\ pc # "idle"
    /\ ~cancelled
    /\ cancelled' = TRUE
    /\ UNCHANGED <<params, receipt, live, staged, istate, pc, res, ret,
                   performErr, singleAt>>
    /\ UNCHANGED ghost
    /\ UNCHANGED task
    /\ UNCHANGED nestedDone
    /\ UNCHANGED committed
    /\ events' = << >>
    /\ UNCHANGED fileClosed
    /\ UNCHANGED closedUse
    /\ UNCHANGED pvars

\* the process dies: what the run held in memory is gone, the staging and
\* install folders stay as they are
Crash ==
    /\ pc # "idle"
    /\ pc' = "idle"
    /\ ret' = "crash"
    /\ istate' = ZeroState
    /\ res' = ZeroRes
    /\ cancelled' = FALSE
    /\ performErr' = "none"
    /\ taskCalled' = FALSE
    /\ findUpgradeCalls' = 0
    /\ upgradeAnswer' = NotAsked
    /\ retireCalled' = FALSE
    /\ UNCHANGED <<params, receipt, live, staged, sessionsCreated, singleAt>>
    /\ manager' = NilInfo
    /\ finalResult' = NilResult
    /\ lastProbed' = NilInfo
    /\ secondProbes' = 0
    /\ calls' = << >>
    /\ commitCalls' = 0
    /\ dlErr' = "none"
    /\ started' = 0
    /\ offset' = 0
    /\ UNCHANGED nestedDone
    /\ committed' = NoCommit
    /\ events' = << >>
    /\ fileClosed' = FALSE
    /\ closedUse' = FALSE
    /\ UNCHANGED pvars

\* InstallPrepare :133-186
PrepareSession ==
    /\ pc = "prepare"
    /\ \/ \* :137-140 ClientFromCredentials fails
          /\ Return("error")
          /\ UNCHANGED <<res, istate, staged, sessionsCreated>>
       \/ /\ res' = NewPrepareResult(ReadReceipt(receipt))
          /\ IF NeedsDownloadSession(istate)
             THEN \/ \* :167-169
                     /\ Return("error")
                     /\ UNCHANGED <<istate, staged, sessionsCreated>>
                  \/ \* :170-171
                     /\ sessionsCreated < MaxSessions
                     /\ sessionsCreated' = sessionsCreated + 1
                     /\ istate' = [istate EXCEPT !.DownloadSessionId = sessionsCreated + 1]
                     /\ staged' = istate'
                     /\ pc' = "select"
                     /\ UNCHANGED <<ret, performErr>>
             ELSE /\ pc' = "select"
                  /\ UNCHANGED <<istate, staged, sessionsCreated, ret, performErr>>
    /\ UNCHANGED <<params, receipt, live, cancelled, taskCalled, findUpgradeCalls,
                   upgradeAnswer, retireCalled, singleAt>>
    /\ UNCHANGED task
    /\ UNCHANGED nestedDone
    /\ UNCHANGED committed
    /\ events' = << >>
    /\ UNCHANGED fileClosed
    /\ UNCHANGED closedUse
    /\ UNCHANGED pvars

\* InstallPrepare :188-246
SelectStrategy ==
    /\ pc = "select"
    /\ LET receiptIn == res.ReceiptIn IN
       IF SameUpload(receiptIn, params) /\ BothBuilds(receiptIn, params)
       THEN LET oldID == receiptIn.Build
                newID == params.Build
            IN  IF IsUpgrade(newID, oldID)
                THEN \E ans \in FindUpgradeAnswers :
                       /\ findUpgradeCalls' = findUpgradeCalls + 1
                       /\ upgradeAnswer' = ans
                       /\ res' = [res EXCEPT !.Strategy =
                                     UpgradeStrategy(ans, oldID, params.UploadSize)]
                       /\ InvokeTask(res'.Strategy)
                ELSE /\ res' = [res EXCEPT !.Strategy =
                                   IF IsDowngrade(newID, oldID)
                                   THEN DowngradeStrategy
                                   ELSE ReinstallStrategy]
                     /\ InvokeTask(res'.Strategy)
                     /\ UNCHANGED <<findUpgradeCalls, upgradeAnswer>>
       ELSE /\ pc' = "open"
            /\ UNCHANGED <<res, ret, performErr, taskCalled, findUpgradeCalls,
                           upgradeAnswer>>
    /\ UNCHANGED <<params, receipt, live, staged, istate, cancelled,
                   sessionsCreated, retireCalled, singleAt>>
    /\ UNCHANGED task
    /\ UNCHANGED nestedDone
    /\ UNCHANGED committed
    /\ events' = << >>
    /\ UNCHANGED fileClosed
    /\ UNCHANGED closedUse
    /\ UNCHANGED pvars

\* heal(oc, meta, isub, receiptIn), called at :339
Heal ==
    /\ pc = "heal"
    /\ \/ \* a heal that succeeds ends by committing the requested target
          /\ receipt' = [state |-> "ok", Upload |-> params.UploadID,
                         Build |-> params.Build]
          /\ commitCalls' = commitCalls + 1
          /\ Return("ok")
       \/ \E e \in StepErrors :
            /\ Return(e)
            /\ UNCHANGED <<receipt, commitCalls>>
    /\ UNCHANGED <<params, live, staged, istate, cancelled, res, singleAt>>
    /\ UNCHANGED <<manager, finalResult, lastProbed, secondProbes, calls, dlErr,
                   started, offset>>
    /\ UNCHANGED ghost
    /\ UNCHANGED nestedDone
    /\ UNCHANGED committed
    /\ events' = << >>
    /\ UNCHANGED fileClosed
    /\ UNCHANGED closedUse
    /\ UNCHANGED pvars

\* InstallPerform :43-50
Retire ==
    /\ pc = "retire"
    /\ retireCalled' = TRUE
    /\ pc' = "idle"
    /\ \/ /\ live' = FALSE
          /\ staged' = ZeroState
          /\ singleAt' = IF singleAt = "nested" THEN "none" ELSE singleAt
          /\ ret' = "ok"
       \/ /\ ret' = "error"
          /\ UNCHANGED <<live, staged, singleAt>>
    /\ UNCHANGED <<params, receipt, istate, cancelled, res, performErr,
                   taskCalled, findUpgradeCalls, upgradeAnswer, sessionsCreated>>
    /\ UNCHANGED task
    /\ UNCHANGED nestedDone
    /\ UNCHANGED committed
    /\ events' = << >>
    /\ UNCHANGED fileClosed
    /\ UNCHANGED closedUse
    /\ UNCHANGED pvars

\* :85-113, what the download closure of doForceLocal sends and calls when
\* it fails at the given point, or nowhere
DownloadEvents(failedAt) ==
    IF failedAt = "started" THEN << >>
    ELSE IF failedAt = "download"
    THEN <<"TaskStarted:download", "StartProgress", "DownloadFailed", "EndProgress">>
    ELSE IF failedAt = "succeeded"
    THEN <<"TaskStarted:download", "StartProgress", "Download", "EndProgress">>
    ELSE <<"TaskStarted:download", "StartProgress", "Download", "EndProgress",
           "TaskSucceeded:download">>

\* :80
NeverReuseLocal(ist) == FALSE
CanReuseLocal(ist) == ist.IsAvailableLocally

\* an operation on the source handle in use: Stat, Read, Seek
UseFile == closedUse' = (closedUse \/ fileClosed)

\* doForceLocal :67-128; reached from InstallPrepare :266 (its error is
\* returned) and from the task :423 (the backend's ErrNeedLocal is returned)
DoForceLocal(okPc, fromTask) ==
    LET Fail(e) == Return(IF fromTask THEN "needlocal" ELSE e) IN
    /\ \/ \* :72-75 file.Stat fails
          /\ Fail("error")
          /\ dlErr' = "none"
          /\ events' = << >>
          /\ UNCHANGED <<istate, staged, offset>>
       \/ \* :80-81 and :123-127
          /\ CanReuseLocal(istate)
          /\ dlErr' = "none"
          /\ events' = << >>
          /\ UNCHANGED <<istate, staged>>
          /\ \/ pc' = okPc /\ offset' = 0 /\ UNCHANGED <<ret, performErr>>
             \/ Fail("error") /\ UNCHANGED offset
       \/ \* :85-117 the notification or the download fails
          /\ ~CanReuseLocal(istate)
          /\ \E e \in StepErrors : Fail(e) /\ dlErr' = e
          /\ \E failedAt \in {"started", "download", "succeeded"} :
               events' = DownloadEvents(failedAt)
          /\ UNCHANGED <<istate, staged, offset>>
       \/ \* :119-127
          /\ ~CanReuseLocal(istate)
          /\ dlErr' = "ok"
          /\ events' = DownloadEvents("nowhere")
          /\ istate' = [istate EXCEPT !.IsAvailableLocally = TRUE]
          /\ staged' = istate'
          /\ \/ pc' = okPc /\ offset' = 0 /\ UNCHANGED <<ret, performErr>>
             \/ Fail("error") /\ UNCHANGED offset
    \* :72 and :100 work on the handle that was passed in
    /\ UseFile
    \* :123-128 and :271-273, :428: the caller goes on with the handle of the
    \* local file
    /\ fileClosed' = (pc' # okPc /\ fileClosed)

\* InstallPrepare :248-274, allowDownloads is true in doInstallPerform
OpenSource ==
    /\ pc = "open"
    /\ \/ \* :250-253 eos.Open fails
          /\ Return("error")
          /\ UNCHANGED offset
       \/ /\ pc' = IF params.Build = Nil /\ params.External
                   THEN "forcelocal" ELSE "probe"
          /\ offset' = 0
          /\ UNCHANGED <<ret, performErr>>
    /\ UNCHANGED <<params, receipt, live, staged, istate, cancelled, res, singleAt>>
    /\ UNCHANGED ghost
    /\ UNCHANGED <<manager, finalResult, lastProbed, secondProbes, calls, commitCalls,
                   dlErr, started>>
    /\ UNCHANGED nestedDone
    /\ UNCHANGED committed
    /\ events' = << >>
    /\ UNCHANGED fileClosed
    /\ UNCHANGED closedUse
    /\ UNCHANGED pvars

\* InstallPrepare :265-273
ForceLocalPrepare ==
    /\ pc = "forcelocal"
    /\ DoForceLocal("probe", FALSE)
    /\ UNCHANGED <<params, receipt, live, cancelled, res, singleAt>>
    /\ UNCHANGED ghost
    /\ UNCHANGED <<manager, finalResult, lastProbed, secondProbes, calls, commitCalls,
                   started>>
    /\ UNCHANGED nestedDone
    /\ UNCHANGED committed
    /\ UNCHANGED pvars

\* :283-286, file.Seek(0, io.SeekStart)
NoSeek(pos) == pos
SeekStart(pos) == 0

\* InstallPrepare :276-323
Probe ==
    /\ pc = "probe"
    /\ IF NeedsProbe(istate)
       THEN \/ \* :279-282, :302-305 probing or assessing fails
               /\ lastProbed' = "failed"
               /\ \E pos \in 0..1 : offset' = pos
               /\ Return("error")
               /\ UNCHANGED <<istate, staged, taskCalled>>
            \/ \* :283-288 seeking back fails
               /\ lastProbed' = "failed"
               /\ offset' = 1
               /\ Return("error")
               /\ UNCHANGED <<istate, staged, taskCalled>>
            \/ \E probed \in InstallerTypes, pos \in 0..1 :
                 /\ lastProbed' = probed
                 /\ offset' = SeekStart(pos)
                 /\ istate' = [istate EXCEPT !.InstallerInfo =
                                  ApplyIgnoreInstallers(params.IgnoreInstallers, probed)]
                 /\ staged' = istate'
                 /\ IF IsUnsupported(istate'.InstallerInfo)
                    THEN Return("unsupported") /\ UNCHANGED taskCalled
                    ELSE InvokeTask(res.Strategy)
       ELSE /\ UNCHANGED <<istate, staged, lastProbed, offset>>
            /\ IF IsUnsupported(istate.InstallerInfo)
               THEN Return("unsupported") /\ UNCHANGED taskCalled
               ELSE InvokeTask(res.Strategy)
    /\ dlErr' = "none"
    /\ IF NeedsProbe(istate) THEN UseFile ELSE UNCHANGED closedUse
    /\ UNCHANGED <<params, receipt, live, cancelled, res, findUpgradeCalls,
                   upgradeAnswer, sessionsCreated, retireCalled, singleAt>>
    /\ UNCHANGED <<manager, finalResult, secondProbes, calls, commitCalls, started>>
    /\ UNCHANGED nestedDone
    /\ UNCHANGED committed
    /\ events' = << >>
    /\ UNCHANGED fileClosed
    /\ UNCHANGED pvars

\* tryInstall :384-389, the context is already done
TryInstallRegardless ==
    {[err |-> "ok", files |-> n, notified |-> TRUE, invoked |-> TRUE] : n \in 0..MaxFiles}
TryInstallCancelled ==
    {[err |-> "cancelled", files |-> 0, notified |-> FALSE, invoked |-> FALSE]}

\* tryInstall :382-413: what one call can end with, whether the TaskStarted
\* notification went out and whether it got as far as manager.Install
TryInstallOutcomes ==
    IF cancelled
    THEN TryInstallCancelled
    ELSE {[err |-> "error", files |-> 0, notified |-> n, invoked |-> FALSE] :
             n \in BOOLEAN}
         \cup {[err |-> e, files |-> 0, notified |-> TRUE, invoked |-> TRUE] :
                  e \in {"error", "needlocal", "cancelled"}}
         \cup {[err |-> "ok", files |-> n, notified |-> TRUE, invoked |-> TRUE] :
                  n \in 0..MaxFiles}

\* :391-405, what tryInstall sends and calls for the given outcome
TryInstallEventsNoEnd(o) ==
    IF o.invoked
    THEN IF o.err = "ok"
         THEN <<"TaskStarted:install", "StartProgress", "Install", "EndProgress">>
         ELSE <<"TaskStarted:install", "StartProgress", "Install">>
    ELSE IF o.notified THEN <<"TaskStarted:install">> ELSE << >>
TryInstallEvents(o) ==
    IF o.invoked
    THEN <<"TaskStarted:install", "StartProgress", "Install", "EndProgress">>
    ELSE IF o.notified THEN <<"TaskStarted:install">> ELSE << >>

\* :405, the call is made on the manager selected last
LogCall(o, who, type) ==
    /\ events' = TryInstallEvents(o)
    \* :383, the deferred Close of tryInstall
    /\ fileClosed' = TRUE
    /\ calls' = IF o.invoked /\ Len(calls) < MaxCalls
                THEN Append(calls, [who |-> who, type |-> type])
                ELSE calls
    /\ started' = IF o.notified /\ started < MaxCalls THEN started + 1 ELSE started
    /\ offset' = IF o.invoked /\ who = "primary" THEN 1 ELSE offset

\* :417
FirstNeverDone(ist) == FALSE
FirstAlreadyDone(ist) == ist.FirstInstallResult # NilResult

\* :447
AfterFirstAny(files) == IF files >= 1 THEN "nested" ELSE "commit"
AfterFirst(files) == IF files = 1 THEN "nested" ELSE "commit"

\* :440-447
RecordFirstUnsaved(o) ==
    /\ istate' = [istate EXCEPT !.FirstInstallResult = o.files]
    /\ staged' = staged
    /\ singleAt' = IF o.files = 1 THEN "folder" ELSE singleAt
    /\ finalResult' = o.files
    /\ pc' = AfterFirst(o.files)
    /\ UNCHANGED <<ret, performErr>>
RecordFirst(o) ==
    /\ istate' = [istate EXCEPT !.FirstInstallResult = o.files]
    /\ staged' = istate'
    /\ singleAt' = IF o.files = 1 THEN "folder" ELSE singleAt
    /\ finalResult' = o.files
    /\ pc' = AfterFirst(o.files)
    /\ UNCHANGED <<ret, performErr>>

\* the install task :342-442 up to the first tryInstall
InstallPrimary ==
    /\ pc = "install"
    /\ \/ \* :342-345 Stat fails
          /\ Return("error")
          /\ UNCHANGED <<istate, staged, singleAt, cancelled, manager, finalResult, calls,
                       started, offset, fileClosed>>
          /\ events' = << >>
       \/ \* :363-367
          /\ ~HasManager(istate.InstallerInfo)
          /\ Return("error")
          /\ UNCHANGED <<istate, staged, singleAt, cancelled, manager, finalResult, calls,
                       started, offset, fileClosed>>
          /\ events' = << >>
       \/ \* :417-418, :444-447
          /\ HasManager(istate.InstallerInfo)
          /\ FirstAlreadyDone(istate)
          /\ manager' = istate.InstallerInfo
          /\ finalResult' = istate.FirstInstallResult
          /\ pc' = AfterFirst(istate.FirstInstallResult)
          /\ UNCHANGED <<istate, staged, singleAt, cancelled, ret, performErr, calls,
                       started, offset, fileClosed>>
          /\ events' = << >>
       \/ \* :420-422
          /\ HasManager(istate.InstallerInfo)
          /\ ~FirstAlreadyDone(istate)
          /\ manager' = istate.InstallerInfo
          /\ \E o \in TryInstallOutcomes :
               /\ cancelled' = (cancelled \/ o.err = "cancelled")
               /\ LogCall(o, "primary", manager')
               /\ IF o.err = "ok" THEN RecordFirst(o)
                  ELSE IF o.err = "needlocal"
                  THEN /\ pc' = "needlocal"
                       /\ UNCHANGED <<istate, staged, singleAt, ret, performErr,
                                      finalResult>>
                  ELSE /\ Return(o.err)
                       /\ UNCHANGED <<istate, staged, singleAt, finalResult>>
    /\ lastProbed' = NilInfo
    /\ UNCHANGED dlErr
    \* :342
    /\ UseFile
    /\ UNCHANGED <<params, receipt, live, res>>
    /\ UNCHANGED <<secondProbes, commitCalls>>
    /\ UNCHANGED ghost
    /\ UNCHANGED nestedDone
    /\ UNCHANGED committed
    /\ UNCHANGED pvars

\* the install task :423-429
ForceLocalInstall ==
    /\ pc = "needlocal"
    /\ DoForceLocal("retry", TRUE)
    /\ UNCHANGED <<params, receipt, live, cancelled, res, singleAt>>
    /\ UNCHANGED ghost
    /\ UNCHANGED <<manager, finalResult, lastProbed, secondProbes, calls, commitCalls,
                   started>>
    /\ UNCHANGED nestedDone
    /\ UNCHANGED committed
    /\ UNCHANGED pvars

\* :431-436, the error of the second attempt is returned whatever it is
RetriesAgainOnNeedLocal(err) == err = "needlocal"
RetriesAgain(err) == FALSE

\* the install task :431-441
RetryInstall ==
    /\ pc = "retry"
    /\ \E o \in TryInstallOutcomes :
         /\ cancelled' = (cancelled \/ o.err = "cancelled")
         /\ LogCall(o, "primary", manager)
         /\ IF o.err = "ok" THEN RecordFirst(o)
            ELSE IF RetriesAgain(o.err)
            THEN /\ pc' = "needlocal"
                 /\ UNCHANGED <<istate, staged, singleAt, ret, performErr, finalResult>>
            ELSE /\ Return(o.err)
                 /\ UNCHANGED <<istate, staged, singleAt, finalResult>>
    /\ UNCHANGED <<params, receipt, live, res>>
    /\ dlErr' = "none"
    /\ UseFile
    /\ UNCHANGED <<manager, lastProbed, secondProbes, commitCalls>>
    /\ UNCHANGED ghost
    /\ UNCHANGED nestedDone
    /\ UNCHANGED committed
    /\ UNCHANGED pvars

\* :492-495, os.Stat(destPath) finds the file
NeverRelocated(at) == FALSE
AlreadyRelocated(at) == at = "nested"

\* the install task :482-521 once the single file is known to be an
\* installer of the given type
Relocate(type) ==
    \/ \* :484-487
       /\ ~HasManager(type)
       /\ manager' = NilInfo
       /\ Return("error")
       /\ UNCHANGED singleAt
    \/ \* :492-495, :514-520
       /\ HasManager(type)
       /\ manager' = type
       /\ AlreadyRelocated(singleAt)
       /\ UNCHANGED singleAt
       /\ \/ pc' = "nestedrun" /\ UNCHANGED <<ret, performErr>>
          \/ Return("error")
    \/ \* :497-505 creating the folder or clearing the destination fails
       /\ HasManager(type)
       /\ manager' = type
       /\ ~AlreadyRelocated(singleAt)
       /\ Return("error")
       /\ UNCHANGED singleAt
    \/ \* :502-512 the destination is cleared, then the rename fails
       /\ HasManager(type)
       /\ manager' = type
       /\ ~AlreadyRelocated(singleAt)
       /\ singleAt' = IF singleAt = "nested" THEN "none" ELSE singleAt
       /\ Return("error")
    \/ \* :509-520
       /\ HasManager(type)
       /\ manager' = type
       /\ ~AlreadyRelocated(singleAt)
       /\ singleAt = "folder"
       /\ singleAt' = "nested"
       /\ \/ pc' = "nestedrun" /\ UNCHANGED <<ret, performErr>>
          \/ Return("error")

\* :454-455
SecondNeverCached(ist) == FALSE
SecondCached(ist) == ist.SecondInstallerInfo # NilInfo

\* :466-468, the closure returns nil and the task goes on to :531
FailNested == Return("error")
SkipNested == pc' = "commit" /\ UNCHANGED <<ret, performErr>>

\* the install task :447-521
Nested ==
    /\ pc = "nested"
    /\ IF SecondCached(istate)
       THEN /\ UNCHANGED <<istate, staged, secondProbes>>
            /\ IF IsWindowsInstaller(istate.SecondInstallerInfo)
               THEN Relocate(istate.SecondInstallerInfo)
               ELSE pc' = "commit" /\ UNCHANGED <<ret, performErr, singleAt, manager>>
       ELSE \/ \* :459-462 os.Open fails
               /\ Return("error")
               /\ UNCHANGED <<istate, staged, singleAt, manager, secondProbes>>
            \/ \* :465-469 the probe fails: skipped
               /\ secondProbes' = secondProbes + 1
               /\ SkipNested
               /\ UNCHANGED <<istate, staged, singleAt, manager>>
            \/ \* :473-474
               /\ singleAt = "folder"
               /\ secondProbes' = secondProbes + 1
               /\ \E probed \in InstallerTypes :
                    /\ istate' = [istate EXCEPT !.SecondInstallerInfo = probed]
                    /\ staged' = istate'
                    /\ IF IsWindowsInstaller(probed)
                       THEN Relocate(probed)
                       ELSE pc' = "commit"
                            /\ UNCHANGED <<ret, performErr, singleAt, manager>>
    /\ UNCHANGED <<params, receipt, live, cancelled, res>>
    /\ UNCHANGED <<finalResult, lastProbed, calls, commitCalls, dlErr, started, offset>>
    /\ UNCHANGED ghost
    /\ UNCHANGED nestedDone
    /\ UNCHANGED committed
    /\ events' = << >>
    \* :514-521, the nested backend gets the handle of the relocated file
    /\ fileClosed' = (pc' # "nestedrun" /\ fileClosed)
    /\ UNCHANGED closedUse
    /\ UNCHANGED pvars

\* the install task :522-528
NestedRun ==
    /\ pc = "nestedrun"
    /\ \E o \in TryInstallOutcomes :
         /\ cancelled' = (cancelled \/ o.err = "cancelled")
         /\ LogCall(o, "nested", manager)
         /\ IF o.err = "ok"
            THEN /\ finalResult' = o.files
                 /\ nestedDone' = TRUE
                 /\ pc' = "commit"
                 /\ UNCHANGED <<ret, performErr>>
            ELSE /\ Return(o.err)
                 /\ UNCHANGED <<finalResult, nestedDone>>
    /\ UNCHANGED <<params, receipt, live, staged, istate, res, singleAt>>
    /\ UseFile
    /\ UNCHANGED <<manager, lastProbed, secondProbes, commitCalls, dlErr>>
    /\ UNCHANGED ghost
    /\ UNCHANGED committed
    /\ UNCHANGED pvars

\* :445 and :482, finalInstallerInfo once the task is past the nested pass
FirstPassInfo == istate.InstallerInfo
FinalInstallerInfo ==
    IF /\ istate.FirstInstallResult = 1
       /\ istate.SecondInstallerInfo # NilInfo
       /\ IsWindowsInstaller(istate.SecondInstallerInfo)
    THEN istate.SecondInstallerInfo
    ELSE istate.InstallerInfo

\* :531-540, the target handed to commitInstall
CommitReceiptBuild(p) == [Upload |-> p.UploadID, Build |-> res.ReceiptIn.Build]
CommitInstallParams(p) == [Upload |-> p.UploadID, Build |-> p.Build]

\* commitInstall, called at :531-540
Commit ==
    /\ pc = "commit"
    /\ \/ /\ receipt' = [state |-> "ok", Upload |-> CommitInstallParams(params).Upload,
                         Build |-> CommitInstallParams(params).Build]
          /\ commitCalls' = commitCalls + 1
          /\ Return("ok")
       \/ /\ Return("error")
          /\ UNCHANGED <<receipt, commitCalls>>
    /\ committed' = [InstallerName |-> FinalInstallerInfo, InstallResult |-> finalResult]
    /\ UNCHANGED <<params, live, staged, istate, cancelled, res, singleAt>>
    /\ UNCHANGED <<manager, finalResult, lastProbed, secondProbes, calls, dlErr,
                   started, offset>>
    /\ UNCHANGED ghost
    /\ UNCHANGED nestedDone
    /\ events' = << >>
    /\ UNCHANGED fileClosed
    /\ UNCHANGED closedUse
    /\ UNCHANGED pvars

Next ==
    \/ Start
    \/ Cancel
    \/ Crash
    \/ PrepareSession
    \/ SelectStrategy
    \/ Heal
    \/ OpenSource
    \/ ForceLocalPrepare
    \/ Probe
    \/ InstallPrimary
    \/ ForceLocalInstall
    \/ RetryInstall
    \/ Nested
    \/ NestedRun
    \/ Commit
    \/ Retire

Spec == Init /\ [][Next]_vars

TypeOK ==
    /\ params \in Params
    /\ receipt \in Receipts
    /\ live \in BOOLEAN
    /\ pc \in {"idle", "prepare", "select", "heal", "open", "forcelocal", "probe",
               "install", "needlocal", "retry", "nested", "nestedrun", "commit",
               "retire"}
    /\ ret \in {"none", "ok", "error", "cancelled", "unsupported", "needlocal", "crash"}
    /\ manager \in InstallerTypes \cup {NilInfo}
    /\ finalResult \in {NilResult} \cup (0..MaxFiles)
    /\ lastProbed \in InstallerTypes \cup {NilInfo, "failed"}
    /\ secondProbes \in 0..1
    /\ Len(calls) <= MaxCalls
    /\ commitCalls \in 0..1
    /\ dlErr \in {"none", "ok", "error", "cancelled"}
    /\ started \in 0..MaxCalls
    /\ offset \in 0..1
    /\ nestedDone \in BOOLEAN
    /\ closedUse \in BOOLEAN
    /\ fileClosed \in BOOLEAN
    /\ Len(events) <= 5
    /\ committed.InstallerName \in InstallerTypes \cup {NilInfo}
    /\ profiles \subseteq ProfileIDs
    /\ reply.op \in {"none", "list", "login", "forget", "password", "saved"}
    /\ me \in {0} \cup ProfileIDs
    /\ lw.pc \in {"idle", "captcha", "relogin", "totp", "getme"}
    /\ lw.logins \in 0..2 /\ lw.captchas \in 0..1 /\ lw.totps \in 0..1
    /\ lw.key \in {"none", "login", "totp"}
    /\ lw.end \in {"none", "ok", "error", "aborted", "panic"}

\* ------------------------------------------------- profile endpoints
\* endpoints/profile/profile.go on the profiles table; every call is one
\* step, and seq tells a call from the one before it
Answer(op, id, err, success, listed) ==
    [op |-> op, id |-> id, err |-> err, success |-> success, listed |-> listed,
     seq |-> 1 - reply.seq]

\* models.ProfileByID: the row with that id, or nil
ProfileByID(db, id) == IF id \in db THEN id ELSE Nil

\* List :21-36
List ==
    /\ \/ \* :23-26 the query fails
          reply' = Answer("list", 0, TRUE, FALSE, {})
       \/ reply' = Answer("list", 0, FALSE, FALSE, profiles)
    /\ UNCHANGED profiles
    /\ me' = 0
    /\ UNCHANGED lw
    /\ UNCHANGED ivars

\* :132-135 and :165-168, the profile saved is the one of the user GetMe named
OtherProfileID(user) == IF user < MaxProfileID THEN user + 1 ELSE 1
NewProfileID(user) == user

\* LoginWithAPIKey :150-180: the key is empty, the client or GetMe fails,
\* saving fails, or the profile of the user GetMe names is saved
LoginWithAPIKey(keyGiven, userID) ==
    /\ \/ /\ reply' = Answer("login", IF keyGiven THEN userID ELSE 0, TRUE, FALSE, {})
          /\ \E gotMe \in BOOLEAN : me' = IF keyGiven /\ gotMe THEN userID ELSE 0
          /\ UNCHANGED profiles
       \/ /\ keyGiven
          /\ me' = userID
          /\ profiles' = profiles \cup {NewProfileID(me')}
          /\ reply' = Answer("login", NewProfileID(me'), FALSE, TRUE, {})
    /\ UNCHANGED lw
    /\ UNCHANGED ivars

\* :215-225, success is set once the row was found and deleted
ForgetAlwaysSucceeds(profile) == TRUE
ForgetSuccess(profile) == profile # Nil

\* :213-215
AcceptsAnyProfileID(id) == TRUE
ProfileIDIsSet(id) == id # 0

\* Forget :212-232
Forget(id) ==
    /\ IF ~ProfileIDIsSet(id)
       THEN /\ reply' = Answer("forget", id, TRUE, FALSE, {})
            /\ UNCHANGED profiles
       ELSE LET profile == ProfileByID(profiles, id) IN
            \/ \* :220-223 deleting the row fails
               /\ profile # Nil
               /\ reply' = Answer("forget", id, TRUE, FALSE, {})
               /\ UNCHANGED profiles
            \/ /\ profiles' = profiles \ {profile}
               /\ reply' = Answer("forget", id, FALSE, ForgetSuccess(profile), {})
    /\ me' = 0
    /\ UNCHANGED lw
    /\ UNCHANGED ivars

\* rc.ProfileClient: the stored profile and a client for its API key; the
\* key of a stored profile is the key of the user the profile is named after
ProfileClient(db, id) == IF id \in db THEN id ELSE Nil

\* UseSavedLogin :182-210
UseSavedLogin(id) ==
    LET profile == ProfileClient(profiles, id) IN
    /\ \/ \* no such profile, GetMe fails :189-192, or saving fails :199-202
          /\ reply' = Answer("saved", id, TRUE, FALSE, {})
          /\ \E gotMe \in BOOLEAN : me' = IF profile # Nil /\ gotMe THEN profile ELSE 0
          /\ UNCHANGED profiles
       \/ /\ profile # Nil
          /\ me' = profile
          /\ profiles' = profiles \cup {profile}
          /\ reply' = Answer("saved", profile, FALSE, TRUE, {})
    /\ UNCHANGED lw
    /\ UNCHANGED ivars

\* answers of rootClient.LoginWithPassword that are no error
LoginAnswers == [RecaptchaNeeded : BOOLEAN, Token : BOOLEAN, Key : BOOLEAN]

\* :71
AlwaysCaptcha(loginRes) == TRUE
NeedsCaptcha(loginRes) == loginRes.RecaptchaNeeded

\* :94
NeedsTOTP(loginRes) == loginRes.Token

\* the request ends with an error: plain, aborted, or the panic of key.Key
\* on a nil key
EndLogin(req, how) ==
    /\ lw' = [req EXCEPT !.pc = "idle", !.end = how]
    /\ reply' = Answer("password", 0, TRUE, FALSE, {})
    /\ me' = 0
    /\ UNCHANGED profiles

\* :94-119 once the last answer of the server login is there
AfterLogin(req, loginRes) ==
    IF NeedsTOTP(loginRes)
    THEN /\ lw' = [req EXCEPT !.pc = "totp", !.token = loginRes.Token]
         /\ UNCHANGED <<profiles, reply, me>>
    ELSE IF loginRes.Key
    THEN /\ lw' = [req EXCEPT !.pc = "getme", !.token = loginRes.Token,
                              !.key = "login"]
         /\ UNCHANGED <<profiles, reply, me>>
    ELSE \* :122 key.Key on a nil key
         /\ EndLogin([req EXCEPT !.token = loginRes.Token], "panic")

\* LoginWithPassword :46-69: the request comes in and the server login is
\* attempted for the first time
PasswordStart(usernameGiven, passwordGiven) ==
    /\ lw.pc = "idle"
    /\ IF ~usernameGiven \/ ~passwordGiven
       THEN \* :47-52
            /\ EndLogin(NoLogin, "error")
       ELSE \/ \* :54-57 RootClient fails
               /\ EndLogin(NoLogin, "error")
            \/ \* :63-69 the server login fails
               /\ EndLogin([NoLogin EXCEPT !.logins = @ + 1], "error")
            \/ \E loginRes \in LoginAnswers :
                 LET first == [NoLogin EXCEPT !.logins = @ + 1,
                                              !.demanded = loginRes.RecaptchaNeeded,
                                              !.token = loginRes.Token] IN
                 IF NeedsCaptcha(loginRes)
                 THEN /\ lw' = [first EXCEPT !.pc = "captcha"]
                      /\ UNCHANGED <<profiles, reply, me>>
                 ELSE AfterLogin(first, loginRes)
    /\ UNCHANGED ivars

\* :71-82 the client is asked to solve the captcha
PasswordCaptcha ==
    /\ lw.pc = "captcha"
    /\ \/ \* :76-78 the call fails
          /\ EndLogin(lw, "error")
       \/ \* :80-82 empty response
          /\ EndLogin([lw EXCEPT !.captchas = @ + 1], "aborted")
       \/ /\ lw' = [lw EXCEPT !.pc = "relogin", !.captchas = @ + 1, !.answered = TRUE]
          /\ UNCHANGED <<profiles, reply, me>>
    /\ UNCHANGED ivars

\* :84-91 the server login is attempted again, with the captcha response
PasswordRelogin ==
    /\ lw.pc = "relogin"
    /\ \/ /\ EndLogin([lw EXCEPT !.logins = @ + 1], "error")
       \/ \E loginRes \in LoginAnswers :
            AfterLogin([lw EXCEPT !.logins = @ + 1], loginRes)
    /\ UNCHANGED ivars

\* :94-114 the client is asked for the TOTP code, and the code is verified
PasswordTOTP ==
    /\ lw.pc = "totp"
    /\ \/ \* :97-99 the call fails
          /\ EndLogin(lw, "error")
       \/ \* :101-103 empty code
          /\ EndLogin([lw EXCEPT !.totps = @ + 1], "aborted")
       \/ \* :105-111 TOTPVerify fails
          /\ EndLogin([lw EXCEPT !.totps = @ + 1], "error")
       \/ \* :113 and :122 on a nil key
          /\ EndLogin([lw EXCEPT !.totps = @ + 1], "panic")
       \/ /\ lw' = [lw EXCEPT !.pc = "getme", !.totps = @ + 1, !.key = "totp"]
          /\ UNCHANGED <<profiles, reply, me>>
    /\ UNCHANGED ivars

\* :122-147 the key is validated and the profile saved
PasswordGetMe ==
    /\ lw.pc = "getme"
    /\ \/ \* KeyClient :122-125 or GetMe :127-130 fails, or saving fails :138-141
          /\ lw' = [lw EXCEPT !.pc = "idle", !.end = "error"]
          /\ reply' = Answer("password", 0, TRUE, FALSE, {})
          /\ \E user \in {0} \cup ProfileIDs : me' = user
          /\ UNCHANGED profiles
       \/ \E user \in ProfileIDs :
            /\ me' = user
            /\ profiles' = profiles \cup {NewProfileID(user)}
            /\ lw' = [lw EXCEPT !.pc = "idle", !.end = "ok"]
            /\ reply' = Answer("password", NewProfileID(user), FALSE, TRUE, {})
    /\ UNCHANGED ivars

InitProfile ==
    /\ InitInstall
    /\ params = [UploadID |-> RequestedUpload, UploadSize |-> 0, Build |-> Nil,
                 IgnoreInstallers |-> FALSE, External |-> FALSE]
    /\ receipt = NilReceipt
    /\ profiles = {}
    /\ reply = NoReply
    /\ me = 0
    /\ lw = NoLogin

NextProfile ==
    \/ List
    \/ \E keyGiven \in BOOLEAN, userID \in ProfileIDs : LoginWithAPIKey(keyGiven, userID)
    \/ \E id \in 0..MaxProfileID : Forget(id)

SpecProfile == InitProfile /\ [][NextProfile]_vars

\* the login endpoints next to List and Forget
NextLogin ==
    \/ List
    \/ \E id \in 0..MaxProfileID : Forget(id)
    \/ \E keyGiven \in BOOLEAN, userID \in ProfileIDs : LoginWithAPIKey(keyGiven, userID)
    \/ \E id \in ProfileIDs : UseSavedLogin(id)
    \/ \E usernameGiven \in BOOLEAN, passwordGiven \in BOOLEAN :
          PasswordStart(usernameGiven, passwordGiven)
    \/ PasswordCaptcha
    \/ PasswordRelogin
    \/ PasswordTOTP
    \/ PasswordGetMe

SpecLogin == InitProfile /\ [][NextLogin]_vars

\* one operation re-entered again and again: a request for a hosted build
\* over a receipt of that build, or for an external upload without build
\* into an empty install folder; every step that can be taken is eventually
\* taken, which is all the scheduling of one operation guarantees
InitFair ==
    /\ InitInstall
    /\ \/ /\ params = [UploadID |-> RequestedUpload, UploadSize |-> 0, Build |-> 1,
                       IgnoreInstallers |-> FALSE, External |-> FALSE]
          /\ receipt = [state |-> "ok", Upload |-> RequestedUpload, Build |-> 1]
       \/ /\ params = [UploadID |-> RequestedUpload, UploadSize |-> 0, Build |-> Nil,
                       IgnoreInstallers |-> FALSE, External |-> TRUE]
          /\ receipt = NilReceipt
    /\ profiles = {}
    /\ reply = NoReply
    /\ me = 0
    /\ lw = NoLogin

SpecFair == InitFair /\ [][Next]_vars /\ WF_vars(Next)

\* ------------------------------------------------------------ properties
Failures == {"error", "cancelled", "unsupported", "needlocal"}

\* the receipt read by this run names the requested upload and has a build,
\* and so does the request
SameUploadWithBuilds ==
    SameUpload(res.ReceiptIn, params) /\ BothBuilds(res.ReceiptIn, params)

\* C1: Retire is reached only after doInstallPerform returned nil; when
\* doInstallPerform ended in a failure or cancellation, Retire was not called,
\* the staging folder is still there and holds the record the run had flushed.
C1_RetireOnlyOnSuccess ==
    /\ (retireCalled \/ pc = "retire") => performErr = "ok"
    /\ (pc = "idle" /\ performErr \in Failures) =>
          /\ ~retireCalled
          /\ live
          /\ staged = istate

C1_Witness ==
    /\ pc = "idle"
    /\ performErr = "cancelled"
    /\ staged.FirstInstallResult # NilResult
    /\ staged.SecondInstallerInfo # NilInfo
    /\ ~retireCalled

\* C2: with no receipt in the install folder, or a receipt naming another
\* upload, the strategy handed to the task is Install.
C2_InstallWhenNoOrOtherReceipt ==
    (/\ pc \in {"heal", "install"}
     /\ \/ receipt.state = "absent"
        \/ receipt.state = "ok" /\ receipt.Upload # Nil
                                /\ receipt.Upload # params.UploadID)
    => res.Strategy = InstallPerformStrategyInstall

\* C3: whenever the task callback is invoked, the Strategy of the prepare
\* result is Install or Heal, never None.
C3_StrategyNeverNone ==
    taskCalled =>
        res.Strategy \in {InstallPerformStrategyInstall, InstallPerformStrategyHeal}

\* C4: same upload and same build: no FindUpgrade call in the run, and the
\* task is handed Heal.
C4_SameBuildHeals ==
    (SameUploadWithBuilds /\ params.Build = res.ReceiptIn.Build) =>
        /\ findUpgradeCalls = 0
        /\ taskCalled => res.Strategy = InstallPerformStrategyHeal
        /\ pc \notin {"open", "forcelocal", "probe"}

C4_Witness ==
    /\ SameUploadWithBuilds
    /\ params.Build = res.ReceiptIn.Build
    /\ taskCalled
    /\ pc = "heal"

\* C5: same upload and a requested build lower than the installed one: no
\* FindUpgrade call in the run, and the task is handed Heal.
C5_DowngradeHeals ==
    (SameUploadWithBuilds /\ params.Build < res.ReceiptIn.Build) =>
        /\ findUpgradeCalls = 0
        /\ taskCalled => res.Strategy = InstallPerformStrategyHeal
        /\ pc \notin {"open", "forcelocal", "probe"}

C5_Witness ==
    /\ SameUploadWithBuilds
    /\ params.Build < res.ReceiptIn.Build
    /\ taskCalled
    /\ pc = "heal"

\* C6: in the step in which FindUpgrade fails, InstallPrepare does not
\* return: it invokes the task with Heal, and what the run returns from then
\* on is what heal returns.
C6_QueryFailureFallsBackToHeal ==
    [][(upgradeAnswer'.kind = "error" /\ upgradeAnswer.kind # "error") =>
          /\ SameUploadWithBuilds /\ params.Build > res.ReceiptIn.Build
          /\ taskCalled'
          /\ res'.Strategy = InstallPerformStrategyHeal
          /\ pc' = "heal"
          /\ performErr' = "none"]_vars

\* an operation that succeeded although its upgrade-path query failed
C6_Witness ==
    /\ upgradeAnswer.kind = "error"
    /\ findUpgradeCalls = 1
    /\ performErr = "ok"
    /\ pc = "idle"
    /\ ret = "ok"

\* C7: an upgrade path was found and its summed patch size is strictly
\* greater than the full upload size: the task is handed Heal.
C7_LargerPatchHeals ==
    (/\ upgradeAnswer.kind = "path"
     /\ TotalUpgradeSize(upgradeAnswer.path, res.ReceiptIn.Build) > params.UploadSize)
    => /\ taskCalled
       /\ res.Strategy = InstallPerformStrategyHeal

C7_Witness ==
    /\ upgradeAnswer.kind = "path"
    /\ TotalUpgradeSize(upgradeAnswer.path, res.ReceiptIn.Build) = params.UploadSize + 1
    /\ Len(upgradeAnswer.path) = MaxPathLen
    /\ pc = "heal"

C9_StrategyIsFunctionOfInputs ==
    taskCalled =>
        res.Strategy = IF SameUploadWithBuilds
                       THEN InstallPerformStrategyHeal
                       ELSE InstallPerformStrategyNone

\* decisions of runs that resumed with a session, a local copy, a cached
\* classification and a first install result; and of a first run
C9_Witness ==
    /\ pc = "install"
    /\ taskCalled
    /\ istate.IsAvailableLocally
    /\ istate.InstallerInfo = "archive"
    /\ istate.FirstInstallResult = 1
    /\ istate.SecondInstallerInfo # NilInfo

\* C10: NewDownloadSession succeeds at most once in an operation; while the
\* staging folder lives the saved id is the one created, and every run past
\* the session step works with it.
C10_OneDownloadSession ==
    /\ sessionsCreated <= 1
    /\ (live /\ sessionsCreated = 1) => staged.DownloadSessionId = 1
    /\ pc \notin {"idle", "prepare"} =>
          /\ sessionsCreated = 1
          /\ istate.DownloadSessionId = staged.DownloadSessionId

\* a later run that reused the saved id: it is before the probe and the
\* classification of an earlier run is already in the record
C10_Witness ==
    /\ pc = "select"
    /\ sessionsCreated = 1
    /\ istate.DownloadSessionId = 1
    /\ istate.InstallerInfo # NilInfo
\* manager.Install invocations of this run, by the pass that made them
PrimaryCalls == Cardinality({i \in 1..Len(calls) : calls[i].who = "primary"})
NestedCalls  == Cardinality({i \in 1..Len(calls) : calls[i].who = "nested"})

\* C11 as stated: once an installer info is flushed, whatever its type, no
\* later step of the operation probes the source again or changes the stored
\* value while the staging folder lives.
C11_NeverRecomputed ==
    [][(staged.InstallerInfo # NilInfo /\ live') =>
          /\ staged'.InstallerInfo = staged.InstallerInfo
          /\ lastProbed' \in {lastProbed, NilInfo}]_vars

\* C11: once an installer info of a type other than unknown is flushed, no
\* later step of the operation probes the source again or changes the stored
\* value while the staging folder lives, and every run uses the stored value;
\* a stored unknown type is probed again by the next run (:276).
C11_RecomputedOnlyWhenUnknown ==
    [][(staged.InstallerInfo \notin {NilInfo, "unknown"} /\ live') =>
          /\ staged'.InstallerInfo = staged.InstallerInfo
          /\ lastProbed' \in {lastProbed, NilInfo}
          /\ pc' \notin {"idle", "prepare"} =>
                istate'.InstallerInfo = staged.InstallerInfo]_vars

C11_Witness ==
    /\ pc = "install"
    /\ lastProbed = NilInfo
    /\ istate.InstallerInfo = "archive"
    /\ staged.InstallerInfo = "archive"

\* C12: the primary backend is invoked only while no first install result is
\* recorded; a run that finds one recorded at the start of the task invokes
\* no primary backend, decides about the nested pass from the recorded
\* manifest and, when there is no nested pass, commits that manifest.
C12_FirstResultReused ==
    [][/\ PrimaryCalls' > PrimaryCalls => istate.FirstInstallResult = NilResult
       /\ (pc = "install" /\ istate.FirstInstallResult # NilResult
             /\ pc' \in {"nested", "commit"}) =>
             /\ calls' = calls
             /\ istate' = istate
             /\ pc' = AfterFirst(istate.FirstInstallResult)
             /\ finalResult' = istate.FirstInstallResult
       /\ (pc \in {"install", "nested"} /\ pc' = "commit") =>
             finalResult' = istate'.FirstInstallResult]_vars

C12_Witness ==
    /\ pc = "commit"
    /\ calls = << >>
    /\ istate.FirstInstallResult = MaxFiles
    /\ finalResult = MaxFiles

\* C13: the single output file is probed only while no second installer info
\* is stored; a run that finds one stored leaves it as it is and decides from
\* it alone: a Windows installer goes on to the nested pass (or fails on the
\* way there), anything else goes to the commit.
C13_SecondInfoReused ==
    [][/\ secondProbes' > secondProbes => istate.SecondInstallerInfo = NilInfo
       /\ (pc = "nested" /\ istate.SecondInstallerInfo # NilInfo
             /\ pc' # "nested" /\ ret' # "crash") =>
             /\ istate' = istate
             /\ staged' = staged
             /\ IF IsWindowsInstaller(istate.SecondInstallerInfo)
                THEN /\ pc' \in {"nestedrun", "idle"}
                     /\ pc' = "nestedrun" => manager' = istate.SecondInstallerInfo
                ELSE pc' = "commit"]_vars

C13_Witness ==
    /\ pc = "nestedrun"
    /\ secondProbes = 0
    /\ manager = istate.SecondInstallerInfo

\* what the claims say of an operation stopped by unsupported packaging
EndedUnsupported ==
    /\ pc = "idle"
    /\ performErr = "unsupported"
    /\ ret = "unsupported"
    /\ calls = << >>
    /\ commitCalls = 0
    /\ ~retireCalled
    /\ live

\* C14 as stated: whenever the first-pass probe answers unsupported, whatever
\* the request, the run ends with the unsupported-packaging error, no backend
\* invoked, nothing committed, the staging folder not retired.
C14_UnsupportedAlwaysFails ==
    lastProbed = "unsupported" => EndedUnsupported

\* C14: whenever the first-pass probe answers unsupported and the request
\* does not set IgnoreInstallers, the run ends with the unsupported-packaging
\* error, no backend invoked, nothing committed, the staging folder not
\* retired; while unsupported is the stored type no run gets to the task, and
\* a restart that gets to the probe step fails there with the same error
\* without probing again.  With IgnoreInstallers set the probed type is
\* stored as naked instead (:296-298).
C14_StoredUnsupportedFails ==
    [][/\ (lastProbed' = "unsupported" /\ ~params.IgnoreInstallers) =>
             EndedUnsupported'
       /\ staged'.InstallerInfo = "unsupported" =>
             /\ pc' \in {"idle", "prepare", "select", "open", "forcelocal", "probe"}
             /\ ~taskCalled'
             /\ calls' = << >>
             /\ commitCalls' = 0
             /\ live'
             /\ pc' # "retire" /\ ~retireCalled'
       /\ (pc = "probe" /\ istate.InstallerInfo = "unsupported"
             /\ pc' # "probe" /\ ret' # "crash") =>
             /\ lastProbed' = NilInfo
             /\ EndedUnsupported']_vars

C14_Witness ==
    /\ EndedUnsupported
    /\ lastProbed = NilInfo
    /\ staged.InstallerInfo = "unsupported"
    /\ ~params.IgnoreInstallers

\* C15: with IgnoreInstallers set, no run invokes the backend of a native
\* installer, neither for the package source nor for the single file the
\* primary backend wrote.
C15_NoNativeInstallerWhenIgnored ==
    params.IgnoreInstallers =>
        \A i \in 1..Len(calls) : ~IsWindowsInstaller(calls[i].type)

\* C16: with IgnoreInstallers set, the stored first-pass type is never a
\* native installer: a source probed as one is stored as naked; and every
\* primary invocation is made on the backend of the stored type.
C16_IgnoredInstallerStoredAsNaked ==
    params.IgnoreInstallers =>
        /\ ~IsWindowsInstaller(staged.InstallerInfo)
        /\ ~IsWindowsInstaller(istate.InstallerInfo)
        /\ lastProbed = "installer" =>
              /\ istate.InstallerInfo = "naked"
              /\ staged.InstallerInfo = "naked"
        /\ \A i \in 1..Len(calls) :
              calls[i].who = "primary" => calls[i].type = istate.InstallerInfo

C16_Witness ==
    /\ params.IgnoreInstallers
    /\ pc = "install"
    /\ lastProbed = "installer"
    /\ staged.InstallerInfo = "naked"

\* C17: when the primary backend asks for a local copy, the task makes the
\* forced-local copy (or returns the backend's error when the copy fails) and
\* then invokes the same backend once more and no further: a run makes at
\* most two primary invocations, the second only from the retry; a failing
\* retry, whatever its error, ends the run with a failure; a successful
\* retry goes on to the nested pass or the commit with nothing returned.
C17_OneRetryAfterNeedLocal ==
    [][/\ PrimaryCalls' <= 2
       /\ (PrimaryCalls' > PrimaryCalls /\ PrimaryCalls >= 1) => pc = "retry"
       /\ (pc = "needlocal" /\ pc' # "needlocal" /\ ret' # "crash") =>
             /\ calls' = calls
             /\ \/ pc' = "retry" /\ istate'.IsAvailableLocally
                \/ pc' = "idle" /\ ret' = "needlocal"
       /\ (pc = "retry" /\ pc' # "retry" /\ ret' # "crash") =>
             /\ manager' = manager
             /\ PrimaryCalls' <= PrimaryCalls + 1
             /\ IF pc' = "idle"
                THEN ret' \in Failures /\ performErr' = ret'
                ELSE /\ pc' \in {"nested", "commit"}
                     /\ PrimaryCalls' = 2
                     /\ istate'.FirstInstallResult # NilResult
                     /\ ret' = "none" /\ performErr' = "none"]_vars

C17_Witness ==
    /\ PrimaryCalls = 2
    /\ pc \in {"nested", "commit"}
    /\ istate.IsAvailableLocally
    /\ calls[1].type = calls[2].type

\* C18: the nested pass is one level deep.  It is entered only with a
\* one-file manifest, the nested backend runs only on a file stored as a
\* Windows installer, at most once in a run and exactly once before a commit
\* of such a manifest; a manifest of no or several files, or a single file
\* that is no installer, gets none; nothing is probed or run after it.
C18_OneLevelOfNesting ==
    /\ NestedCalls <= 1
    /\ secondProbes <= 1
    /\ pc \in {"nested", "nestedrun"} =>
          istate.FirstInstallResult = 1 /\ NestedCalls = 0
    /\ (pc = "nestedrun" \/ NestedCalls = 1) =>
          /\ istate.FirstInstallResult = 1
          /\ IsWindowsInstaller(istate.SecondInstallerInfo)
    /\ NestedCalls = 1 =>
          /\ pc \in {"commit", "retire", "idle"}
          /\ calls[Len(calls)].who = "nested"
    /\ pc = "commit" =>
          NestedCalls = IF /\ istate.FirstInstallResult = 1
                           /\ IsWindowsInstaller(istate.SecondInstallerInfo)
                        THEN 1 ELSE 0

C18_Witness ==
    /\ pc = "commit"
    /\ NestedCalls = 1
    /\ finalResult = 1

C20_CancellationCheckedBeforeEachStep ==
    [][/\ (cancelled /\ pc \in {"open", "commit"} /\ pc' # pc) =>
             /\ pc' = "idle"
             /\ ret' \in {"cancelled", "crash"}
             /\ receipt' = receipt
       /\ cancelled => Len(calls') <= Len(calls)]_vars

\* C21: when the download of a forced-local copy ends with the cancellation
\* error, the run returns the cancellation error, and the source is not
\* marked as available locally.
C21_CancelledCopyReturnsCancelled ==
    (pc = "idle" /\ dlErr = "cancelled") =>
        /\ ret = "cancelled"
        /\ performErr = "cancelled"
        /\ ~istate.IsAvailableLocally
        /\ ~staged.IsAvailableLocally

\* C22: IsAvailableLocally becomes true only in the step of doForceLocal that
\* completes the download, and is flushed in that step; it stays true while
\* the staging folder lives; a doForceLocal that finds it true downloads
\* nothing, changes nothing in the record and only opens the local file.
C22_LocalCopyMadeOnce ==
    [][/\ (~staged.IsAvailableLocally /\ staged'.IsAvailableLocally) =>
             /\ pc \in {"forcelocal", "needlocal"}
             /\ dlErr' = "ok"
       /\ (live' /\ istate'.IsAvailableLocally) => staged'.IsAvailableLocally
       /\ (staged.IsAvailableLocally /\ live') => staged'.IsAvailableLocally
       /\ (pc \in {"forcelocal", "needlocal"} /\ pc' # pc /\ dlErr' # "none") =>
             ~istate.IsAvailableLocally
       /\ (pc \in {"forcelocal", "needlocal"} /\ istate.IsAvailableLocally
             /\ pc' # pc /\ ret' # "crash") =>
             /\ dlErr' = "none"
             /\ istate' = istate /\ staged' = staged
             /\ pc' \in {"probe", "retry"} => offset' = 0]_vars

C22_Witness ==
    /\ pc = "probe"
    /\ params.External
    /\ istate.IsAvailableLocally
    /\ dlErr = "none"

\* the code an error of the operation carries
ErrorCode(err) == IF err = "cancelled" THEN CodeOperationCancelled ELSE 0

\* C23: a tryInstall that starts with the context already done invokes no
\* backend and sends no install TaskStarted notification; it returns the
\* operation-cancelled code 499, which is neither the user-abort code 410
\* nor what a generic failure carries; the flushed record and the staging
\* folder stay as they are.
C23_CancelledBeforeBackend ==
    [][(cancelled /\ pc \in {"install", "retry", "nestedrun"}
          /\ pc' # pc /\ ret' # "crash") =>
          /\ calls' = calls
          /\ started' = started
          /\ istate' = istate /\ staged' = staged /\ live'
          /\ pc' = "idle" => ret' \in {"cancelled", "error"}
          /\ (pc \in {"retry", "nestedrun"}
                \/ (pc = "install" /\ ret' = "cancelled")) =>
                /\ pc' = "idle"
                /\ ret' = "cancelled" /\ performErr' = "cancelled"
                /\ ErrorCode(ret') = CodeOperationCancelled
                /\ ErrorCode(ret') # CodeOperationAborted
                /\ \A e \in Failures \ {"cancelled"} : ErrorCode(e) # ErrorCode(ret')]_vars

C23_Witness ==
    /\ pc = "idle"
    /\ ret = "cancelled"
    /\ cancelled
    /\ calls = << >>
    /\ started = 0
    /\ staged.InstallerInfo = "archive"
    /\ staged.FirstInstallResult = NilResult
    /\ live

\* C24: Forget answers Success = true exactly when a remembered profile with
\* the given id existed and was deleted; a List that follows a successful
\* Forget does not show the profile; a second Forget of the same id answers
\* Success = false without error; a Forget of id 0 is an error and deletes
\* nothing.
C24_ForgetSuccessIffDeleted ==
    [][/\ reply'.op = "forget" =>
             /\ reply'.success <=> (/\ ~reply'.err
                                    /\ reply'.id \in profiles
                                    /\ reply'.id \notin profiles')
             /\ reply'.success => profiles' = profiles \ {reply'.id}
             /\ ~reply'.success => profiles' = profiles
             /\ reply'.id = 0 => (reply'.err /\ profiles' = profiles)
             /\ (reply.op = "forget" /\ reply.success /\ reply.id = reply'.id) =>
                   (~reply'.success /\ ~reply'.err)
       /\ (reply'.op = "list" /\ ~reply'.err) =>
             /\ reply'.listed = profiles
             /\ (reply.op = "forget" /\ reply.success) =>
                   reply.id \notin reply'.listed]_vars

C24_Witness ==
    /\ reply.op = "forget"
    /\ reply.success
    /\ ~reply.err
    /\ reply.id \in ProfileIDs
    /\ reply.id \notin profiles
    /\ profiles # {}

\* C25: every change of the install record is flushed in the step that
\* makes it: wherever the run stands between two steps, when it has failed
\* or was cancelled, and when it reaches Retire, the record in memory is the
\* record last flushed to the staging folder.
C25_RecordFlushedAfterEveryChange ==
    (pc # "idle" \/ performErr \in Failures) =>
        /\ live
        /\ istate = staged

C25_Witness ==
    /\ pc = "idle"
    /\ performErr \in Failures
    /\ istate.DownloadSessionId # 0
    /\ istate.IsAvailableLocally
    /\ istate.InstallerInfo # NilInfo
    /\ istate.FirstInstallResult # NilResult
    /\ istate.SecondInstallerInfo # NilInfo
    /\ istate = staged

\* C26: whenever the decided strategy is Heal, the prepare result carries a
\* receipt that is present, names the requested upload and has a build, and
\* heal is entered with that receipt as it was read from the install folder;
\* a run that decided Heal has opened no forced-local copy, probed nothing,
\* resolved no manager and invoked no backend.
C26_HealCarriesMatchingReceipt ==
    res.Strategy = InstallPerformStrategyHeal =>
        /\ res.ReceiptIn # NilReceipt
        /\ res.ReceiptIn.state = "ok"
        /\ res.ReceiptIn.Upload = params.UploadID
        /\ res.ReceiptIn.Build # Nil
        /\ pc \in {"heal", "retire", "idle"}
        /\ pc = "heal" => res.ReceiptIn = receipt
        /\ lastProbed = NilInfo
        /\ secondProbes = 0
        /\ manager = NilInfo
        /\ calls = << >>
        /\ started = 0
        /\ dlErr = "none"
        /\ offset = 0

C26_Witness ==
    /\ res.Strategy = InstallPerformStrategyHeal
    /\ pc = "idle"
    /\ ret = "ok"
    /\ commitCalls = 1
    /\ res.ReceiptIn.Build # params.Build
    /\ calls = << >>

\* C27: the task is entered with the source at offset 0, whether the source
\* was probed in this run or not; the primary backend is invoked only on a
\* source at offset 0; a probe step that leaves the source away from the
\* start ends the run with an error and caches no installer info.
C27_SourceRewoundAfterProbe ==
    [][/\ pc' = "install" => offset' = 0
       /\ PrimaryCalls' > PrimaryCalls => offset = 0
       /\ (pc = "probe" /\ pc' # pc /\ ret' # "crash" /\ offset' # 0) =>
             /\ pc' = "idle"
             /\ ret' = "error"
             /\ istate' = istate
             /\ staged' = staged
             /\ ~taskCalled']_vars

C27_Witness ==
    /\ pc = "install"
    /\ lastProbed \in InstallerTypes
    /\ staged.InstallerInfo = lastProbed
    /\ offset = 0
    /\ taskCalled

C30_NestedBackendRunsOnce ==
    [][nestedDone => NestedCalls' <= NestedCalls]_vars

\* a step in which the environment fails the operation: the process dies,
\* the operation is cancelled, or a step ends the run with a generic error,
\* the cancellation error or the needs-local error
ExternalFault ==
    \/ pc' = "idle" /\ ret' \in {"crash", "error", "cancelled", "needlocal"}
    \/ cancelled' /\ ~cancelled

\* InstallPerform returned nil: committed, staging folder retired
Done == pc = "idle" /\ ret = "ok" /\ retireCalled /\ ~live /\ commitCalls = 1

C31_CheckpointOrder ==
    /\ staged.InstallerInfo # NilInfo => staged.DownloadSessionId # 0
    /\ staged.FirstInstallResult # NilResult => staged.InstallerInfo # NilInfo
    /\ staged.SecondInstallerInfo # NilInfo => staged.FirstInstallResult = 1
    /\ singleAt = "nested" => staged.SecondInstallerInfo # NilInfo

C31_Witness ==
    /\ staged.DownloadSessionId # 0
    /\ staged.InstallerInfo # NilInfo
    /\ staged.FirstInstallResult = 1
    /\ staged.SecondInstallerInfo # NilInfo
    /\ singleAt = "nested"
    /\ pc = "nestedrun"

\* :376, the prior receipt handed to the backend
ManagerReceiptIn == res.ReceiptIn

\* the positions of a run on the full install path, from opening the source
\* to the commit
InstallPath == {"open", "forcelocal", "probe", "install", "needlocal", "retry",
                "nested", "nestedrun", "commit"}

\* C32: with a receipt that is there but cannot be read, the run goes on as
\* with no receipt: the prepare result and the backend get no prior receipt,
\* no upgrade path is asked for, Heal is not chosen, and the strategy step
\* goes on to open the source.
C32_UnreadableReceiptAsAbsent ==
    [][/\ (receipt'.state = "unreadable" /\ pc' # "idle") =>
             /\ res'.ReceiptIn = NilReceipt
             /\ ManagerReceiptIn' = NilReceipt
             /\ findUpgradeCalls' = 0
             /\ res'.Strategy # InstallPerformStrategyHeal
             /\ pc' # "heal"
       /\ (receipt.state = "unreadable" /\ pc = "select"
             /\ pc' # pc /\ ret' # "crash") =>
             /\ pc' = "open"
             /\ ret' = "none"]_vars

C32_Witness ==
    /\ receipt.state = "unreadable"
    /\ pc = "commit"
    /\ PrimaryCalls = 1
    /\ ManagerReceiptIn = NilReceipt

\* C33: a receipt of the requested upload where the receipt or the request
\* has no build: Heal is not chosen and no upgrade path is asked for, the
\* strategy step goes on to open the source, and the run on the install path
\* hands the receipt as it is in the install folder to the backend.
C33_SameUploadWithoutBuildInstalls ==
    [][LET sameNoBuild(rc, p, rs) ==
               /\ rc.state = "ok"
               /\ rc.Upload = p.UploadID
               /\ (rc.Build = Nil \/ p.Build = Nil)
               /\ rs.ReceiptIn = rc
       IN  /\ sameNoBuild(receipt', params', res') =>
                 /\ res'.Strategy # InstallPerformStrategyHeal
                 /\ pc' # "heal"
                 /\ findUpgradeCalls' = 0
                 /\ ManagerReceiptIn' = receipt'
           /\ (sameNoBuild(receipt, params, res) /\ pc = "select"
                 /\ pc' # pc /\ ret' # "crash") =>
                 /\ pc' = "open"
                 /\ ret' = "none"
           /\ (receipt.state = "ok" /\ pc \in InstallPath /\ pc' \in InstallPath) =>
                 ManagerReceiptIn' = receipt]_vars

C33_Witness ==
    /\ receipt.state = "ok"
    /\ receipt.Upload = params.UploadID
    /\ receipt.Build # Nil
    /\ params.Build = Nil
    /\ pc = "commit"
    /\ PrimaryCalls = 1
    /\ ManagerReceiptIn = receipt

\* C34: commitInstall is called from the commit step only; when the nested
\* backend ran in this run, it is handed the type of the nested installer
\* and the result of the nested run, otherwise the type of the first pass
\* and the primary result; a nested run that fails ends the run with its
\* error and nothing is committed.
C34_CommitRecordsLastBackend ==
    [][/\ committed' # committed /\ committed' # NoCommit =>
             /\ pc = "commit"
             /\ IF NestedCalls = 1
                THEN /\ calls[Len(calls)].who = "nested"
                     /\ committed'.InstallerName = calls[Len(calls)].type
                     /\ committed'.InstallerName = istate.SecondInstallerInfo
                     /\ committed'.InstallResult = finalResult
                ELSE /\ committed'.InstallerName = istate.InstallerInfo
                     /\ committed'.InstallResult = istate.FirstInstallResult
       /\ (pc = "nestedrun" /\ pc' = "commit") =>
             /\ NestedCalls' = 1
             /\ finalResult' \in 0..MaxFiles
       /\ (pc = "nestedrun" /\ pc' # pc /\ pc' # "commit") =>
             /\ pc' = "idle"
             /\ ret' \in Failures \cup {"crash"}
             /\ committed' = NoCommit
             /\ commitCalls' = 0
             /\ receipt' = receipt]_vars

C34_Witness ==
    /\ pc = "retire"
    /\ NestedCalls = 1
    /\ committed.InstallerName = "installer"
    /\ istate.InstallerInfo = "archive"
    /\ istate.FirstInstallResult = 1
    /\ committed.InstallResult = 2

Count(e) == Cardinality({i \in 1..Len(events) : events[i] = e})

\* C36: in what a step sends and calls, every StartProgress is followed by
\* the download or the backend call and then by one EndProgress, whether the
\* call failed or not, and there is no EndProgress without its
\* StartProgress; a download TaskSucceeded comes last, after a download
\* TaskStarted and a download that succeeded; a backend call comes right
\* after the one install TaskStarted and the StartProgress of its step, and
\* the backend is called in no other way.
C36_NotificationsWellBracketed ==
    [][/\ \A i \in 1..Len(events') :
            /\ events'[i] = "StartProgress" =>
                  /\ i + 2 <= Len(events')
                  /\ events'[i + 1] \in {"Download", "DownloadFailed", "Install"}
                  /\ events'[i + 2] = "EndProgress"
            /\ events'[i] = "EndProgress" =>
                  /\ i > 2
                  /\ events'[i - 2] = "StartProgress"
            /\ events'[i] = "TaskSucceeded:download" =>
                  /\ i = Len(events')
                  /\ events'[1] = "TaskStarted:download"
                  /\ Count("TaskStarted:download")' = 1
                  /\ Count("Download")' = 1
                  /\ Count("DownloadFailed")' = 0
            /\ events'[i] = "Install" =>
                  /\ i = 3
                  /\ events'[1] = "TaskStarted:install"
                  /\ events'[2] = "StartProgress"
                  /\ Count("TaskStarted:install")' = 1
       /\ Count("StartProgress")' = Count("EndProgress")'
       /\ Len(calls') = Len(calls) + Count("Install")'
             \/ (Len(calls') = 0 /\ Count("Install")' = 0)
       /\ Count("TaskSucceeded:download")' = 1 => dlErr' = "ok"
       /\ (pc \in {"forcelocal", "needlocal"} /\ dlErr' = "ok") =>
             Count("TaskSucceeded:download")' = 1
       /\ started' # started => started' = started + Count("TaskStarted:install")'
                                \/ started' = 0]_vars

C36_Witness ==
    /\ events = <<"TaskStarted:install", "StartProgress", "Install", "EndProgress">>
    /\ pc = "idle"
    /\ ret = "error"
    /\ PrimaryCalls = 2
    /\ staged.IsAvailableLocally

\* C37: no run performs an operation on a source handle that was closed
\* before.
C37_NoUseAfterClose ==
    ~closedUse

LoginOps == {"login", "password", "saved"}

\* C38: the set of stored profiles grows only in the step of a login
\* endpoint in which GetMe succeeded, by the profile whose id is the user id
\* GetMe returned, and that call answers without error; a login call that
\* answers with an error (empty argument, server login error, aborted captcha
\* or TOTP exchange, TOTP verification or GetMe failure) leaves the set as
\* it was
C38_ProfileSavedOnlyAfterGetMe ==
    [][ /\ ~(profiles' \subseteq profiles) =>
             /\ me' # 0
             /\ profiles' = profiles \cup {me'}
             /\ reply'.op \in LoginOps /\ ~reply'.err /\ reply'.id = me'
        /\ (reply'.op \in LoginOps /\ reply'.err) => profiles' = profiles
        /\ (lw' # lw /\ lw'.end \in {"error", "aborted", "panic"}) =>
             profiles' = profiles
        /\ (reply'.op \in LoginOps /\ reply'.success) => reply'.id \in profiles'
      ]_vars

C38_Witness ==
    /\ reply.op = "password" /\ reply.success
    /\ lw.end = "ok" /\ lw.key = "totp" /\ lw.captchas = 1
    /\ me # 0 /\ reply.id = me /\ profiles = {me}

\* C39: within one LoginWithPassword request the server login is attempted
\* at most twice and the second time only after a non-empty captcha
\* response; the captcha is requested at most once and only if the first
\* answer demanded it; the TOTP code is requested at most once, only if the
\* last answer carried a token and only after a demanded captcha exchange
\* was completed; the request succeeds only with a key of the last answer or
\* of the TOTP verification
C39_LoginStepsOrderedAndBounded ==
    /\ lw.logins <= 2
    /\ lw.logins = 2 => lw.captchas = 1 /\ lw.answered
    /\ lw.pc = "relogin" => lw.logins = 1 /\ lw.answered
    /\ lw.captchas <= 1
    /\ (lw.pc = "captcha" \/ lw.captchas = 1) => lw.demanded /\ lw.logins >= 1
    /\ lw.totps <= 1
    /\ (lw.pc = "totp" \/ lw.totps = 1) =>
          /\ lw.token
          /\ lw.demanded => lw.answered /\ lw.logins = 2
    /\ lw.pc = "totp" => lw.totps = 0
    /\ lw.end = "ok" =>
          /\ lw.key \in {"login", "totp"}
          /\ lw.key = "totp" <=> lw.totps = 1
          /\ lw.key = "login" => ~lw.token

C39_Witness ==
    /\ lw.end = "ok" /\ lw.logins = 2 /\ lw.captchas = 1 /\ lw.totps = 1
    /\ lw.key = "totp"

====
